---- MODULE Spec2Model ----
(***************************************************************************)
(* Market simulation, position monitoring and settlement of the trading   *)
(* server (server part of src/unnamed/part_000, lines 1-383).              *)
(*                                                                         *)
(* Numbers.  JavaScript numbers and SQLite REALs are modelled as integers  *)
(* counted in thousandths of a unit: a price of 2034.50 is 2034500, a      *)
(* balance of 10000.0 is 10000000.  Sizes are plain integers.  A value     *)
(* that may be null / undefined / NaN is a tuple: <<>> for the missing     *)
(* value, <<v>> for the number v.                                          *)
(*                                                                         *)
(* Scheduling.  Node runs the interval callback and every route handler    *)
(* to completion on one thread, and none of the handlers modelled here     *)
(* awaits, so each is one atomic action.                                   *)
(***************************************************************************)
EXTENDS Integers, Sequences, FiniteSets, TLC

VARIABLES
  running,      \* the Node process is alive (no uncaught exception yet)
  db,           \* SQLite: [users, positions, transactions]
  prices,       \* prices: Record<string, number>
  candleData,   \* candleData[asset][tf]: array of candles
  now,          \* last wall-clock reading, epoch seconds
  ticks,        \* number of interval callbacks run so far
  response,     \* the HTTP response of the latest step (code 0 for a tick)
  tickLog,      \* what the latest step's TP/SL loop did, one entry per position visited
  clients,      \* wss.clients: the readyState of each observer's socket
  sent,         \* the messages the latest broadcast sent, per observer
  timerDue,     \* the interval timer has expired and its callback is not yet started
  active,       \* the interval callbacks begun and not yet returned
  lost,         \* the observers the latest broadcast's message failed to reach
  history       \* the rows the latest GET /api/positions/history returned

vars == <<running, db, prices, candleData, now, ticks, response, tickLog,
          clients, sent, timerDue, active, lost, history>>

----------------------------------------------------------------------------
(* Bounds of the model *)

\* rows ever inserted into positions and transactions together
MaxRows == 2
\* interval callbacks run
MaxTicks == 2
\* interval callbacks run when the market feed is studied on its own
MaxMarketTicks == 3

----------------------------------------------------------------------------
(* Values *)

NULL == <<>>
NaN == <<>>
Some(v) == <<v>>
Val(x) == x[1]

\* JavaScript truthiness of a nullable number: null, undefined, NaN and 0 are falsy.
Truthy(x) == x # NULL /\ Val(x) # 0

\* `x || null`
OrNull(x) == IF Truthy(x) THEN x ELSE NULL

\* typeof p !== 'number' || isNaN(p)
NotANumber(p) == p = NaN

----------------------------------------------------------------------------
(* Static configuration *)

Users == {1, 2}
\* role column / JWT role claim: user 2 is the administrator
Role(u) == IF u = 2 THEN "admin" ELSE "user"

\* two of the seven instruments, one on each branch of the volatility test
Assets == {"USD/JPY", "GOLD"}

DefaultPrice(asset) ==
  CASE asset = "USD/JPY" -> 150243
    [] asset = "GOLD"    -> 2034500
    [] OTHER             -> 1000

\* two of the eight timeframes
Timeframes == {"1m", "5m"}
TfSeconds(tf) == IF tf = "1m" THEN 60 ELSE 300

InitialBalance == 10000000
Leverage == 100
MaxCandles == 200
HistoryLimit == 50
TickPeriod == 1

\* asset.includes("USD/") ? 0.0001 : 0.001, in parts per million
VolatilityPpm(asset) == IF asset \in {"USD/JPY"} THEN 100 ELSE 1000

\* the clock reading before the first tick: 58 s into a 5-minute period
StartTime == 1800000058

----------------------------------------------------------------------------
(* Inputs drawn by the environment *)

\* price moves tried per tick, thousandths; in one tick every asset draws the same one
Steps == {-2, 2}
ChangeInputs == {[a \in Assets |-> st] : st \in Steps}

\* change = (Math.random() - 0.5) * (currentPrice * volatility), Math.random() in [0, 1):
\* -0.5 * p * v <= change < 0.5 * p * v
\* (for a negative product the interval is mirrored, for a zero one it is {0})
InWalkBound(currentPrice, asset, change) ==
  LET q == currentPrice * VolatilityPpm(asset)
  IN IF q > 0 THEN -2 * 1000000 * change <= q /\ 2 * 1000000 * change < q
     ELSE IF q = 0 THEN change = 0
     ELSE 2 * 1000000 * change > q /\ 2 * 1000000 * change <= -q

Sizes == {2}
\* <<type, take_profit, stop_loss>> of the open requests tried: no thresholds
\* (absent, or sent as 0), a bracket around the default price for a long and for a
\* short, and a long whose take-profit lies below its stop-loss
Orders(asset) ==
  LET lo == Some(DefaultPrice(asset) - 2)
      hi == Some(DefaultPrice(asset) + 2)
  IN {<<"SELL", NULL, NULL>>, <<"SELL", Some(0), Some(0)>>,
      <<"BUY", hi, lo>>, <<"SELL", lo, hi>>, <<"BUY", lo, hi>>}
DepositAmounts == {50000}
WithdrawAmounts == {9990000, 20000000}

\* where inside db.transaction(...)() a storage fault strikes: 0 = no fault,
\* 1 = the first statement throws, 2 = the second statement throws, 3 = COMMIT fails
FaultPoints == 0..3

----------------------------------------------------------------------------
(* Price generator and candle aggregator (interval callback, first half) *)

\* prices[asset] after the generator step; a corrupted price is reset to the default
AdvancePrice(asset, currentPrice, change) ==
  IF NotANumber(currentPrice)
    THEN Some(DefaultPrice(asset))
    ELSE Some(Val(currentPrice) + change)

Max(a, b) == IF a >= b THEN a ELSE b
Min(a, b) == IF a <= b THEN a ELSE b

\* PeriodStart without the alignment to the period
PeriodStartUnaligned(t, tfSeconds) == t

\* Math.floor(now / tfSeconds) * tfSeconds
PeriodStart(t, tfSeconds) == (t \div tfSeconds) * tfSeconds

\* OnTick whose update of the running candle leaves its high alone
OnTickNoHigh(candles, tfSeconds, price, t) ==
  LET periodStart == PeriodStart(t, tfSeconds)
      n == Len(candles)
  IN IF n = 0 \/ candles[n].time < periodStart
       THEN LET pushed == Append(candles, [time |-> periodStart, open |-> price,
                                           high |-> price, low |-> price, close |-> price])
            IN IF Len(pushed) > MaxCandles THEN Tail(pushed) ELSE pushed
       ELSE [candles EXCEPT ![n] = [@ EXCEPT !.low = Min(@, price), !.close = price]]

\* OnTick that starts a new candle also when the last one is of the same period
OnTickSamePeriod(candles, tfSeconds, price, t) ==
  LET periodStart == PeriodStart(t, tfSeconds)
      n == Len(candles)
  IN IF n = 0 \/ candles[n].time <= periodStart
       THEN LET pushed == Append(candles, [time |-> periodStart, open |-> price,
                                           high |-> price, low |-> price, close |-> price])
            IN IF Len(pushed) > MaxCandles THEN Tail(pushed) ELSE pushed
       ELSE [candles EXCEPT ![n] = [@ EXCEPT !.high = Max(@, price),
                                             !.low = Min(@, price), !.close = price]]

\* OnTick that on overflow drops the candle before the new one, not the oldest
OnTickEvictLast(candles, tfSeconds, price, t) ==
  LET periodStart == PeriodStart(t, tfSeconds)
      n == Len(candles)
      fresh == [time |-> periodStart, open |-> price,
                high |-> price, low |-> price, close |-> price]
  IN IF n = 0 \/ candles[n].time < periodStart
       THEN IF n + 1 > MaxCandles THEN [candles EXCEPT ![n] = fresh]
            ELSE Append(candles, fresh)
       ELSE [candles EXCEPT ![n] = [@ EXCEPT !.high = Max(@, price),
                                             !.low = Min(@, price), !.close = price]]

\* OnTick whose update of the running candle also rewrites its open
OnTickReopen(candles, tfSeconds, price, t) ==
  LET periodStart == PeriodStart(t, tfSeconds)
      n == Len(candles)
  IN IF n = 0 \/ candles[n].time < periodStart
       THEN LET pushed == Append(candles, [time |-> periodStart, open |-> price,
                                           high |-> price, low |-> price, close |-> price])
            IN IF Len(pushed) > MaxCandles THEN Tail(pushed) ELSE pushed
       ELSE [candles EXCEPT ![n] = [@ EXCEPT !.open = price, !.high = Max(@, price),
                                             !.low = Min(@, price), !.close = price]]

\* the body of Object.entries(timeframes).forEach for one timeframe
OnTick(candles, tfSeconds, price, t) ==
  LET periodStart == PeriodStart(t, tfSeconds)
      n == Len(candles)
  IN IF n = 0 \/ candles[n].time < periodStart
       THEN LET pushed == Append(candles, [time |-> periodStart, open |-> price,
                                           high |-> price, low |-> price, close |-> price])
            IN IF Len(pushed) > MaxCandles THEN Tail(pushed) ELSE pushed
       ELSE [candles EXCEPT ![n] = [@ EXCEPT !.high = Max(@, price),
                                             !.low = Min(@, price),
                                             !.close = price]]

\* the body of assets.forEach for one asset: the early return of the reset branch
\* skips the candle update
AssetCandles(asset, currentPrice, newPrice, series, t) ==
  IF NotANumber(currentPrice)
    THEN series
    ELSE [tf \in Timeframes |-> OnTick(series[tf], TfSeconds(tf), Val(newPrice), t)]

----------------------------------------------------------------------------
(* SQL statements and transactions *)

\* UPDATE positions SET status = 'closed', close_price = ?, pnl = ?,
\*   closed_at = CURRENT_TIMESTAMP WHERE id = ?
UpdatePositionClosed(d, id, closePrice, pnl, t) ==
  IF id \in 1..Len(d.positions)
    THEN [d EXCEPT !.positions[id] = [@ EXCEPT !.status = "closed",
                                               !.close_price = Some(closePrice),
                                               !.pnl = pnl,
                                               !.closed_at = Some(t)]]
    ELSE d

\* UpdateBalance as a read-modify-write whose read is stale: the value written is
\* computed from the balance the account started with
UpdateBalanceStale(d, uid, delta) ==
  IF uid \in DOMAIN d.users
    THEN [d EXCEPT !.users[uid].balance = InitialBalance + delta]
    ELSE d

\* UPDATE users SET balance = balance + ? WHERE id = ?
UpdateBalance(d, uid, delta) ==
  IF uid \in DOMAIN d.users
    THEN [d EXCEPT !.users[uid].balance = @ + delta]
    ELSE d

\* InsertPosition that also debits the margin from the owner's balance
InsertPositionDebitingMargin(d, uid, asset, size, type, entry, tp, sl) ==
  [d EXCEPT !.positions = Append(@,
     [id |-> Len(d.positions) + 1, user_id |-> uid, asset |-> asset, size |-> size,
      type |-> type, entry_price |-> entry, take_profit |-> tp, stop_loss |-> sl,
      close_price |-> NULL, status |-> "open", pnl |-> 0, closed_at |-> NULL]),
            !.users[uid].balance = @ - (size * entry) \div Leverage]

\* INSERT INTO positions (...) VALUES (...): the new row takes the next rowid and
\* the column defaults
InsertPosition(d, uid, asset, size, type, entry, tp, sl) ==
  [d EXCEPT !.positions = Append(@,
     [id |-> Len(d.positions) + 1, user_id |-> uid, asset |-> asset, size |-> size,
      type |-> type, entry_price |-> entry, take_profit |-> tp, stop_loss |-> sl,
      close_price |-> NULL, status |-> "open", pnl |-> 0, closed_at |-> NULL])]

\* INSERT INTO transactions (...) VALUES (?, <type>, ?, ?, ?, 'pending')
InsertTransaction(d, uid, type, amount) ==
  [d EXCEPT !.transactions = Append(@,
     [id |-> Len(d.transactions) + 1, user_id |-> uid, type |-> type,
      amount |-> amount, status |-> "pending"])]

\* UpdateTransactionApproved that leaves the status as it is
UpdateTransactionStaysPending(d, id) == d

\* UPDATE transactions SET status = 'approved' WHERE id = ?
UpdateTransactionApproved(d, id) ==
  IF id \in 1..Len(d.transactions)
    THEN [d EXCEPT !.transactions[id].status = "approved"]
    ELSE d

\* RunTransaction without the rollback: what the statements wrote before the fault stays
RunTransactionNoRollback(d0, d1, d2, fault) ==
  IF fault = 0
    THEN [db |-> d2, threw |-> FALSE]
    ELSE [db |-> IF fault = 1 THEN d0 ELSE IF fault = 2 THEN d1 ELSE d2, threw |-> TRUE]

\* db.transaction(fn)(): BEGIN, the two statements, COMMIT; an exception anywhere
\* inside rolls the database back to d0 and is rethrown.
\* d0 = before, d1 = after the first statement, d2 = after the second.
RunTransaction(d0, d1, d2, fault) ==
  IF fault = 0
    THEN [db |-> d2, threw |-> FALSE]
    ELSE [db |-> d0, threw |-> TRUE]

----------------------------------------------------------------------------
(* Position evaluator (interval callback, TP/SL check) *)

\* Decide with the stop-loss tested before the take-profit
DecideStopLossFirst(pos, currentPrice) ==
  IF pos.type = "BUY"
    THEN IF Truthy(pos.stop_loss) /\ currentPrice <= Val(pos.stop_loss)
           THEN [shouldClose |-> TRUE, closePrice |-> Val(pos.stop_loss), trigger |-> "sl"]
         ELSE IF Truthy(pos.take_profit) /\ currentPrice >= Val(pos.take_profit)
           THEN [shouldClose |-> TRUE, closePrice |-> Val(pos.take_profit), trigger |-> "tp"]
         ELSE [shouldClose |-> FALSE, closePrice |-> currentPrice, trigger |-> "none"]
    ELSE IF Truthy(pos.stop_loss) /\ currentPrice >= Val(pos.stop_loss)
           THEN [shouldClose |-> TRUE, closePrice |-> Val(pos.stop_loss), trigger |-> "sl"]
         ELSE IF Truthy(pos.take_profit) /\ currentPrice <= Val(pos.take_profit)
           THEN [shouldClose |-> TRUE, closePrice |-> Val(pos.take_profit), trigger |-> "tp"]
         ELSE [shouldClose |-> FALSE, closePrice |-> currentPrice, trigger |-> "none"]

\* Decide closing at the market price: closePrice keeps its initial value
DecideAtMarket(pos, currentPrice) ==
  IF pos.type = "BUY"
    THEN IF Truthy(pos.take_profit) /\ currentPrice >= Val(pos.take_profit)
           THEN [shouldClose |-> TRUE, closePrice |-> currentPrice, trigger |-> "tp"]
         ELSE IF Truthy(pos.stop_loss) /\ currentPrice <= Val(pos.stop_loss)
           THEN [shouldClose |-> TRUE, closePrice |-> currentPrice, trigger |-> "sl"]
         ELSE [shouldClose |-> FALSE, closePrice |-> currentPrice, trigger |-> "none"]
    ELSE IF Truthy(pos.take_profit) /\ currentPrice <= Val(pos.take_profit)
           THEN [shouldClose |-> TRUE, closePrice |-> currentPrice, trigger |-> "tp"]
         ELSE IF Truthy(pos.stop_loss) /\ currentPrice >= Val(pos.stop_loss)
           THEN [shouldClose |-> TRUE, closePrice |-> currentPrice, trigger |-> "sl"]
         ELSE [shouldClose |-> FALSE, closePrice |-> currentPrice, trigger |-> "none"]

\* Decide without the truthiness guards: a null threshold compares as the number 0
NullAsZero(x) == IF x = NULL THEN 0 ELSE Val(x)
DecideNullAsZero(pos, currentPrice) ==
  IF pos.type = "BUY"
    THEN IF currentPrice >= NullAsZero(pos.take_profit)
           THEN [shouldClose |-> TRUE, closePrice |-> NullAsZero(pos.take_profit),
                 trigger |-> "tp"]
         ELSE IF currentPrice <= NullAsZero(pos.stop_loss)
           THEN [shouldClose |-> TRUE, closePrice |-> NullAsZero(pos.stop_loss),
                 trigger |-> "sl"]
         ELSE [shouldClose |-> FALSE, closePrice |-> currentPrice, trigger |-> "none"]
    ELSE IF currentPrice <= NullAsZero(pos.take_profit)
           THEN [shouldClose |-> TRUE, closePrice |-> NullAsZero(pos.take_profit),
                 trigger |-> "tp"]
         ELSE IF currentPrice >= NullAsZero(pos.stop_loss)
           THEN [shouldClose |-> TRUE, closePrice |-> NullAsZero(pos.stop_loss),
                 trigger |-> "sl"]
         ELSE [shouldClose |-> FALSE, closePrice |-> currentPrice, trigger |-> "none"]

\* lines 325-344: shouldClose and closePrice for one open position
Decide(pos, currentPrice) ==
  IF pos.type = "BUY"
    THEN IF Truthy(pos.take_profit) /\ currentPrice >= Val(pos.take_profit)
           THEN [shouldClose |-> TRUE, closePrice |-> Val(pos.take_profit), trigger |-> "tp"]
         ELSE IF Truthy(pos.stop_loss) /\ currentPrice <= Val(pos.stop_loss)
           THEN [shouldClose |-> TRUE, closePrice |-> Val(pos.stop_loss), trigger |-> "sl"]
         ELSE [shouldClose |-> FALSE, closePrice |-> currentPrice, trigger |-> "none"]
    ELSE IF Truthy(pos.take_profit) /\ currentPrice <= Val(pos.take_profit)
           THEN [shouldClose |-> TRUE, closePrice |-> Val(pos.take_profit), trigger |-> "tp"]
         ELSE IF Truthy(pos.stop_loss) /\ currentPrice >= Val(pos.stop_loss)
           THEN [shouldClose |-> TRUE, closePrice |-> Val(pos.stop_loss), trigger |-> "sl"]
         ELSE [shouldClose |-> FALSE, closePrice |-> currentPrice, trigger |-> "none"]

\* lines 347-352: pnl of an automatic closure
AutoPnl(pos, closePrice) ==
  IF pos.type = "BUY"
    THEN (closePrice - pos.entry_price) * pos.size
    ELSE (pos.entry_price - closePrice) * pos.size

\* ManualPnl with the short formula's operands the wrong way round
ManualPnlShortAsLong(position, close_price) ==
  (close_price - position.entry_price) * position.size

\* lines 147-152: pnl of a manual closure
ManualPnl(position, close_price) ==
  IF position.type = "BUY"
    THEN (close_price - position.entry_price) * position.size
    ELSE (position.entry_price - close_price) * position.size

\* Settle whose balance update has no WHERE clause: every account is credited
SettleCreditingAll(d, id, uid, closePrice, pnl, t, fault) ==
  LET d1 == UpdatePositionClosed(d, id, closePrice, pnl, t)
      d2 == [d1 EXCEPT !.users = [v \in DOMAIN d1.users |->
                                    [d1.users[v] EXCEPT !.balance = @ + pnl]]]
  IN RunTransaction(d, d1, d2, fault)

\* lines 354-357 and 154-157: the settlement unit
Settle(d, id, uid, closePrice, pnl, t, fault) ==
  LET d1 == UpdatePositionClosed(d, id, closePrice, pnl, t)
      d2 == UpdateBalance(d1, uid, pnl)
  IN RunTransaction(d, d1, d2, fault)

\* SelectOpen restricted to the positions of user 1
RECURSIVE SelectOpenOfFirstUser(_, _)
SelectOpenOfFirstUser(positions, i) ==
  IF i > Len(positions) THEN <<>>
  ELSE IF positions[i].status = "open" /\ positions[i].user_id = 1
    THEN <<positions[i]>> \o SelectOpenOfFirstUser(positions, i + 1)
    ELSE SelectOpenOfFirstUser(positions, i + 1)

\* SELECT * FROM positions WHERE status = 'open': the rows in rowid order
RECURSIVE SelectOpen(_, _)
SelectOpen(positions, i) ==
  IF i > Len(positions) THEN <<>>
  ELSE IF positions[i].status = "open"
    THEN <<positions[i]>> \o SelectOpen(positions, i + 1)
    ELSE SelectOpen(positions, i + 1)

\* one visit of the loop: the decision taken, and what became of the settlement
\* ("left open", "settled", or "fault" with the point where the fault struck)
LogEntry(pos, dec, pnl, outcome, fault) ==
  [id |-> pos.id, user_id |-> pos.user_id, shouldClose |-> dec.shouldClose,
   trigger |-> dec.trigger, closePrice |-> dec.closePrice, pnl |-> pnl,
   outcome |-> outcome, fault |-> fault]

\* openPositions.forEach(...): visits the snapshot rows in order; an exception
\* thrown by a settlement leaves forEach, so the rows after it are not visited.
\* faultId / faultPoint: the settlement the environment makes fail, and where.
RECURSIVE ForEachOpen(_, _, _, _, _, _)
ForEachOpen(rows, d, px, t, faultId, faultPoint) ==
  IF rows = <<>>
    THEN [db |-> d, log |-> <<>>, threw |-> FALSE]
    ELSE
      LET pos == Head(rows)
          dec == Decide(pos, Val(px[pos.asset]))
      IN IF ~dec.shouldClose
           THEN LET rest == ForEachOpen(Tail(rows), d, px, t, faultId, faultPoint)
                IN [rest EXCEPT !.log = <<LogEntry(pos, dec, 0, "left open", 0)>> \o @]
           ELSE
             LET pnl == AutoPnl(pos, dec.closePrice)
                 r == Settle(d, pos.id, pos.user_id, dec.closePrice, pnl, t,
                             IF faultId = pos.id THEN faultPoint ELSE 0)
             IN IF r.threw
                  THEN [db |-> r.db, log |-> <<LogEntry(pos, dec, pnl, "fault", faultPoint)>>,
                        threw |-> TRUE]
                  ELSE LET rest == ForEachOpen(Tail(rows), r.db, px, t, faultId, faultPoint)
                       IN [rest EXCEPT !.log = <<LogEntry(pos, dec, pnl, "settled", 0)>> \o @]

----------------------------------------------------------------------------
(* Broadcast to the connected observers, lines 314-319 *)

\* the sockets that may connect to the WebSocket server
Observers == {"o1", "o2"}
\* "absent": not in wss.clients; "OPEN", "CLOSING": readyState of a socket in wss.clients
ReadyStates == {"absent", "OPEN", "CLOSING"}

\* JSON.stringify writes a number that is NaN as null
JsonPrices(px) == [a \in DOMAIN px |-> IF NotANumber(px[a]) THEN NULL ELSE px[a]]

\* JSON.stringify({ type: "market_update", prices, candleData })
MarketUpdate(px, cd) ==
  [type |-> "market_update", prices |-> JsonPrices(px), candleData |-> cd]

\* Broadcast that stops after the first send
BroadcastOnce(cl, px, cd) ==
  LET open == {o \in DOMAIN cl : cl[o] = "OPEN"}
      first == CHOOSE o \in open : TRUE
  IN [o \in DOMAIN cl |-> IF open # {} /\ o = first THEN <<MarketUpdate(px, cd)>> ELSE <<>>]

\* wss.clients.forEach: one send to every socket whose readyState is OPEN
Broadcast(cl, px, cd) ==
  [o \in DOMAIN cl |-> IF cl[o] = "OPEN" THEN <<MarketUpdate(px, cd)>> ELSE <<>>]

----------------------------------------------------------------------------
(* Initial state: a fresh database with the registered users, lines 22-73, 240-266 *)

\* op: the route that answered ("tick": none, the step was the interval callback);
\* code: the HTTP status; id, pnl: the fields of the JSON body
NoResponse == [op |-> "tick", code |-> 0, id |-> 0, pnl |-> 0]
Reply(op, code) == [NoResponse EXCEPT !.op = op, !.code = code]

Init ==
  /\ running = TRUE
  /\ db = [users |-> [u \in Users |-> [balance |-> InitialBalance]],
           positions |-> <<>>,
           transactions |-> <<>>]
  /\ prices = [a \in Assets |-> Some(DefaultPrice(a))]
  /\ candleData = [a \in Assets |-> [tf \in Timeframes |-> <<>>]]
  /\ now = StartTime
  /\ ticks = 0
  /\ response = NoResponse
  /\ tickLog = <<>>
  /\ clients = [o \in Observers |-> "absent"]
  /\ sent = [o \in Observers |-> <<>>]
  /\ timerDue = FALSE
  /\ active = <<>>
  /\ lost = {}
  /\ history = <<>>

marketVars == <<prices, candleData, now, ticks>>
wsVars == <<clients, sent, lost>>
loopVars == <<timerDue, active>>

----------------------------------------------------------------------------
(* setInterval(() => {...}, 1000), lines 268-361 *)

\* one run of the callback: change = the generator's draws, t = Date.now() / 1000
\* read during the run, faultId / faultPoint = the settlement that fails, if any
TickWith(change, t, faultId, faultPoint) ==
  /\ running
  /\ \A a \in Assets :
       IF NotANumber(prices[a]) THEN TRUE
       ELSE InWalkBound(Val(prices[a]), a, change[a])
  /\ (faultId = 0) <=> (faultPoint = 0)
  /\ LET newPrices == [a \in Assets |-> AdvancePrice(a, prices[a], change[a])]
         newCandles == [a \in Assets |->
                          AssetCandles(a, prices[a], newPrices[a], candleData[a], t)]
         rows == SelectOpen(db.positions, 1)
         loop == ForEachOpen(rows, db, newPrices, t, faultId, faultPoint)
     IN /\ (faultId # 0) => loop.threw
        /\ prices' = newPrices
        /\ candleData' = newCandles
        /\ sent' = Broadcast(clients, newPrices, newCandles)
        /\ now' = t
        /\ ticks' = ticks + 1
        /\ db' = loop.db
        /\ tickLog' = loop.log
        \* an exception leaving the timer callback is uncaught: Node exits
        /\ running' = ~loop.threw
        /\ response' = NoResponse
        /\ lost' = {}
        /\ UNCHANGED <<clients, loopVars, history>>

Tick ==
  /\ ticks < MaxTicks
  /\ \E change \in ChangeInputs, faultId \in 0..Len(db.positions),
        faultPoint \in FaultPoints :
       TickWith(change, now + TickPeriod, faultId, faultPoint)

----------------------------------------------------------------------------
(* Route handlers *)

\* InsufficientMargin without the division by the leverage
InsufficientMarginNoLeverage(balance, size, entry_price) ==
  balance < size * entry_price

\* lines 126-127: marginRequired = (size * entry_price) / 100; balance < marginRequired
InsufficientMargin(balance, size, entry_price) ==
  balance * Leverage < size * entry_price

\* POST /api/positions/open, lines 121-137
OpenPosition(u, asset, size, type, entry_price, take_profit, stop_loss) ==
  /\ running
  /\ Len(db.positions) + Len(db.transactions) < MaxRows
  /\ IF InsufficientMargin(db.users[u].balance, size, entry_price)
       THEN /\ response' = Reply("open", 400)
            /\ db' = db
       ELSE /\ db' = InsertPosition(db, u, asset, size, type, entry_price,
                                    OrNull(take_profit), OrNull(stop_loss))
            /\ response' = [Reply("open", 200) EXCEPT !.id = Len(db.positions) + 1]
  /\ tickLog' = <<>>
  /\ UNCHANGED <<running, marketVars, wsVars, loopVars, history>>

\* InvalidPosition without the status test
InvalidPositionNoStatus(d, u, position_id) ==
  \/ ~(position_id \in 1..Len(d.positions))
  \/ d.positions[position_id].user_id # u

\* InvalidPosition without the owner test
InvalidPositionNoOwner(d, u, position_id) ==
  \/ ~(position_id \in 1..Len(d.positions))
  \/ d.positions[position_id].status # "open"

\* lines 141-143: SELECT ... WHERE id = ? AND user_id = ? finds no row, or the row
\* is not open
InvalidPosition(d, u, position_id) ==
  \/ ~(position_id \in 1..Len(d.positions))
  \/ d.positions[position_id].user_id # u
  \/ d.positions[position_id].status # "open"

\* POST /api/positions/close, lines 139-160
ClosePosition(u, position_id, close_price, fault) ==
  /\ running
  /\ IF InvalidPosition(db, u, position_id)
       THEN /\ fault = 0
            /\ response' = Reply("close", 400)
            /\ db' = db
       ELSE LET position == db.positions[position_id]
                pnl == ManualPnl(position, close_price)
                r == Settle(db, position_id, u, close_price, pnl, now, fault)
            IN /\ db' = r.db
               \* a throwing handler is answered by Express with status 500
               /\ response' = IF r.threw THEN Reply("close", 500)
                              ELSE [Reply("close", 200) EXCEPT !.pnl = pnl]
  /\ tickLog' = <<>>
  /\ UNCHANGED <<running, marketVars, wsVars, loopVars, history>>

\* POST /api/wallet/deposit, lines 173-179
Deposit(u, amount) ==
  /\ running
  /\ Len(db.positions) + Len(db.transactions) < MaxRows
  /\ db' = InsertTransaction(db, u, "deposit", amount)
  /\ response' = Reply("deposit", 200)
  /\ tickLog' = <<>>
  /\ UNCHANGED <<running, marketVars, wsVars, loopVars, history>>

\* Withdraw without the balance test
WithdrawUnchecked(u, amount, fault) ==
  /\ running
  /\ Len(db.positions) + Len(db.transactions) < MaxRows
  /\ LET d1 == InsertTransaction(db, u, "withdrawal", amount)
         d2 == UpdateBalance(d1, u, -amount)
         r == RunTransaction(db, d1, d2, fault)
     IN /\ db' = r.db
        /\ response' = IF r.threw THEN Reply("withdraw", 500)
                       ELSE Reply("withdraw", 200)
  /\ tickLog' = <<>>
  /\ UNCHANGED <<running, marketVars, wsVars, loopVars, history>>

\* POST /api/wallet/withdraw, lines 181-196
Withdraw(u, amount, fault) ==
  /\ running
  /\ Len(db.positions) + Len(db.transactions) < MaxRows
  /\ IF db.users[u].balance < amount
       THEN /\ fault = 0
            /\ response' = Reply("withdraw", 400)
            /\ db' = db
       ELSE LET d1 == InsertTransaction(db, u, "withdrawal", amount)
                d2 == UpdateBalance(d1, u, -amount)
                r == RunTransaction(db, d1, d2, fault)
            IN /\ db' = r.db
               /\ response' = IF r.threw THEN Reply("withdraw", 500)
                              ELSE Reply("withdraw", 200)
  /\ tickLog' = <<>>
  /\ UNCHANGED <<running, marketVars, wsVars, loopVars, history>>

\* POST /api/admin/transactions/approve, lines 222-237
Approve(u, tx_id, fault) ==
  /\ running
  /\ IF Role(u) # "admin"
       THEN /\ fault = 0
            /\ response' = Reply("approve", 403)
            /\ db' = db
     ELSE IF tx_id \in 1..Len(db.transactions) /\ db.transactions[tx_id].status = "pending"
       THEN LET tx == db.transactions[tx_id]
                d1 == UpdateTransactionApproved(db, tx_id)
                d2 == IF tx.type = "deposit"
                        THEN UpdateBalance(d1, tx.user_id, tx.amount)
                        ELSE d1
                r == RunTransaction(db, d1, d2, fault)
            IN /\ db' = r.db
               /\ response' = IF r.threw THEN Reply("approve", 500)
                              ELSE Reply("approve", 200)
       ELSE /\ fault = 0
            /\ response' = Reply("approve", 400)
            /\ db' = db
  /\ tickLog' = <<>>
  /\ UNCHANGED <<running, marketVars, wsVars, loopVars, history>>

----------------------------------------------------------------------------

\* the close price a client sends: the latest price of the position's asset
MarketPriceFor(id) ==
  Val(prices[IF id \in 1..Len(db.positions) THEN db.positions[id].asset ELSE "GOLD"])

Next ==
  \/ Tick
  \/ \E u \in Users, asset \in Assets, size \in Sizes :
       \E o \in Orders(asset) :
         OpenPosition(u, asset, size, o[1], DefaultPrice(asset), o[2], o[3])
  \/ \E u \in Users, id \in 1..MaxRows, fault \in FaultPoints :
       ClosePosition(u, id, MarketPriceFor(id), fault)
  \/ \E u \in Users, amount \in DepositAmounts : Deposit(u, amount)
  \/ \E u \in Users, amount \in WithdrawAmounts, fault \in FaultPoints :
       Withdraw(u, amount, fault)
  \/ \E u \in Users, id \in 1..MaxRows, fault \in FaultPoints :
       Approve(u, id, fault)

Spec == Init /\ [][Next]_vars

----------------------------------------------------------------------------
(* The market feed on its own: the interval callback under arbitrary clock   *)
(* readings, with observers connecting and leaving, started either on a      *)
(* fresh server or on one that has been up long enough to fill the 1m series *)

\* the clock reading of a run, relative to the previous one: a regular second,
\* a stall of five minutes, and a wall clock stepped back by a minute
ClockJumps == {-60, 1, 300}

\* minutes the server has been up at StartTime
Uptimes == {0, MaxCandles}

\* a candle of the past: the price left the period where it entered it, after
\* moving a step up and a step down
HistoryCandle(asset, time) ==
  [time |-> time, open |-> DefaultPrice(asset), high |-> DefaultPrice(asset) + 2,
   low |-> DefaultPrice(asset) - 2, close |-> DefaultPrice(asset)]

\* the series the aggregator has built after `minutes` minutes of ticks, one
\* candle per period up to the one running at StartTime, at most MaxCandles
History(asset, tf, minutes) ==
  IF minutes = 0 THEN <<>>
  ELSE LET last == PeriodStart(StartTime, TfSeconds(tf))
           first == PeriodStart(StartTime - 60 * minutes, TfSeconds(tf))
           kept == Min((last - first) \div TfSeconds(tf) + 1, MaxCandles)
       IN [i \in 1..kept |-> HistoryCandle(asset, last - (kept - i) * TfSeconds(tf))]

\* the generator's change for every asset when all draw the same random number:
\* the step st where the price is large enough for it, 0 where the bound
\* |change| <= 0.5 * price * volatility leaves nothing else
ChangeFor(px, st) ==
  [a \in Assets |-> IF ~NotANumber(px[a]) /\ ~InWalkBound(Val(px[a]), a, st)
                      THEN 0 ELSE st]

InitMarket ==
  /\ running = TRUE
  /\ db = [users |-> [u \in Users |-> [balance |-> InitialBalance]],
           positions |-> <<>>,
           transactions |-> <<>>]
  /\ prices = [a \in Assets |-> Some(DefaultPrice(a))]
  /\ \E minutes \in Uptimes :
       candleData = [a \in Assets |-> [tf \in Timeframes |-> History(a, tf, minutes)]]
  /\ now = StartTime
  /\ ticks = 0
  /\ response = NoResponse
  /\ tickLog = <<>>
  /\ clients = [o \in Observers |-> "absent"]
  /\ sent = [o \in Observers |-> <<>>]
  /\ timerDue = FALSE
  /\ active = <<>>
  /\ lost = {}
  /\ history = <<>>

MarketTick ==
  /\ ticks < MaxMarketTicks
  /\ \E st \in Steps, jump \in ClockJumps :
       TickWith(ChangeFor(prices, st), now + jump, 0, 0)

\* the ws server accepts a connection: the socket joins wss.clients, OPEN
Connect(o) ==
  /\ running
  /\ clients[o] = "absent"
  /\ clients' = [clients EXCEPT ![o] = "OPEN"]
  /\ UNCHANGED <<running, db, marketVars, response, tickLog, sent, lost, loopVars, history>>

\* a close handshake starts: the socket stays in wss.clients, CLOSING
BeginClose(o) ==
  /\ running
  /\ clients[o] = "OPEN"
  /\ clients' = [clients EXCEPT ![o] = "CLOSING"]
  /\ UNCHANGED <<running, db, marketVars, response, tickLog, sent, lost, loopVars, history>>

\* the socket is closed: the ws server removes it from wss.clients
Remove(o) ==
  /\ running
  /\ clients[o] = "CLOSING"
  /\ clients' = [clients EXCEPT ![o] = "absent"]
  /\ UNCHANGED <<running, db, marketVars, response, tickLog, sent, lost, loopVars, history>>

NextMarket ==
  \/ MarketTick
  \/ \E o \in Observers : Connect(o)
  \/ \E o \in Observers : BeginClose(o)
  \/ \E o \in Observers : Remove(o)

SpecMarket == InitMarket /\ [][NextMarket]_vars

----------------------------------------------------------------------------
(* The market feed started with a corrupted price map: the case the guard at *)
(* lines 273-281 is written for                                              *)

\* stored values that are not finite positive numbers: a non-number or NaN,
\* zero, and a negative number
CorruptPrices == {NaN, Some(0), Some(-5)}

InitCorrupt ==
  /\ running = TRUE
  /\ db = [users |-> [u \in Users |-> [balance |-> InitialBalance]],
           positions |-> <<>>,
           transactions |-> <<>>]
  /\ prices \in {px \in [Assets -> {Some(DefaultPrice(a)) : a \in Assets} \cup CorruptPrices] :
                   /\ \A a \in Assets : px[a] \in CorruptPrices \/ px[a] = Some(DefaultPrice(a))
                   /\ \E a \in Assets : px[a] \in CorruptPrices}
  /\ candleData = [a \in Assets |-> [tf \in Timeframes |-> <<>>]]
  /\ now = StartTime
  /\ ticks = 0
  /\ response = NoResponse
  /\ tickLog = <<>>
  /\ clients = [o \in Observers |-> "absent"]
  /\ sent = [o \in Observers |-> <<>>]
  /\ timerDue = FALSE
  /\ active = <<>>
  /\ lost = {}
  /\ history = <<>>

SpecCorrupt == InitCorrupt /\ [][NextMarket]_vars

----------------------------------------------------------------------------
(* The interval callback step by step under Node's event loop: the timer     *)
(* expires on its own, a due callback is started only when no JavaScript is  *)
(* on the call stack, and a started callback runs its phases in order:       *)
(* "generate" (lines 269-312), "broadcast" (314-319), "select" (322),        *)
(* "evaluate" (323-359, one position per step), "done" (361)                 *)

\* Yields if the settlement awaited its storage transaction
YieldsInEvaluate(phase) == phase = "evaluate"

\* whether the callback hands control back to the event loop while in `phase`:
\* it is a plain arrow function, neither async nor awaiting, and every call it
\* makes (better-sqlite3, ws send) is synchronous
Yields(phase) == FALSE

\* SendThrows if a failed delivery surfaced as an exception of send
SendThrowsOnFailure(failed) == failed # {}

\* whether client.send(...) (line 317) throws when the message cannot be delivered
\* to the observers in `failed`: send hands the frame to the open socket and
\* returns; a frame that cannot be delivered fails later, on the socket
SendThrows(failed) == FALSE

\* no JavaScript is on the call stack: every callback begun is suspended
StackFree == \A j \in 1..Len(active) : Yields(active[j].phase)
\* callback i is the one on the call stack, or may be resumed onto it
CanRun(i) == \A j \in 1..Len(active) : j # i => Yields(active[j].phase)

AtPhase(i, phase, rows) == [active EXCEPT ![i] = [phase |-> phase, rows |-> rows]]

\* a server with both observers connected
InitLoop ==
  /\ running = TRUE
  /\ db = [users |-> [u \in Users |-> [balance |-> InitialBalance]],
           positions |-> <<>>,
           transactions |-> <<>>]
  /\ prices = [a \in Assets |-> Some(DefaultPrice(a))]
  /\ candleData = [a \in Assets |-> [tf \in Timeframes |-> <<>>]]
  /\ now = StartTime
  /\ ticks = 0
  /\ response = NoResponse
  /\ tickLog = <<>>
  /\ clients = [o \in Observers |-> "OPEN"]
  /\ sent = [o \in Observers |-> <<>>]
  /\ timerDue = FALSE
  /\ active = <<>>
  /\ lost = {}
  /\ history = <<>>

\* setInterval(..., 1000): the period has elapsed, whatever the thread is doing
TimerExpires ==
  /\ running
  /\ ~timerDue
  /\ ticks < MaxTicks
  /\ timerDue' = TRUE
  /\ UNCHANGED <<running, db, marketVars, response, tickLog, wsVars, active, history>>

\* the event loop starts the due callback
BeginCallback ==
  /\ running
  /\ timerDue
  /\ StackFree
  /\ timerDue' = FALSE
  /\ active' = Append(active, [phase |-> "generate", rows |-> <<>>])
  /\ ticks' = ticks + 1
  /\ tickLog' = <<>>
  /\ response' = NoResponse
  /\ UNCHANGED <<running, db, prices, candleData, now, wsVars, history>>

\* assets.forEach(...), lines 269-312
RunGenerate(i) ==
  /\ i <= Len(active)
  /\ active[i].phase = "generate"
  /\ CanRun(i)
  /\ \E st \in Steps :
       LET change == ChangeFor(prices, st)
           t == now + TickPeriod
           newPrices == [a \in Assets |-> AdvancePrice(a, prices[a], change[a])]
       IN /\ prices' = newPrices
          /\ candleData' = [a \in Assets |->
                              AssetCandles(a, prices[a], newPrices[a], candleData[a], t)]
          /\ now' = t
  /\ active' = AtPhase(i, "broadcast", <<>>)
  /\ UNCHANGED <<running, db, ticks, response, tickLog, wsVars, timerDue, history>>

\* wss.clients.forEach(...), lines 314-319
\* failed: the open observers whose socket cannot carry the message
RunBroadcast(i) ==
  /\ i <= Len(active)
  /\ active[i].phase = "broadcast"
  /\ CanRun(i)
  /\ \E failed \in SUBSET {o \in Observers : clients[o] = "OPEN"} :
       /\ lost' = failed
       /\ IF SendThrows(failed)
            \* the exception leaves forEach and the callback: Node exits
            THEN /\ sent' = [o \in Observers |-> <<>>]
                 /\ running' = FALSE
                 /\ active' = SubSeq(active, 1, i - 1) \o SubSeq(active, i + 1, Len(active))
            ELSE /\ sent' = Broadcast(clients, prices, candleData)
                 /\ running' = running
                 /\ active' = AtPhase(i, "select", <<>>)
  /\ UNCHANGED <<db, marketVars, response, tickLog, clients, timerDue, history>>

\* SELECT * FROM positions WHERE status = 'open', line 322
RunSelect(i) ==
  /\ i <= Len(active)
  /\ active[i].phase = "select"
  /\ CanRun(i)
  /\ LET rows == SelectOpen(db.positions, 1)
     IN active' = AtPhase(i, IF rows = <<>> THEN "done" ELSE "evaluate", rows)
  /\ UNCHANGED <<running, db, marketVars, response, tickLog, wsVars, timerDue, history>>

\* one visit of openPositions.forEach(...), lines 323-359
RunEvaluate(i) ==
  /\ i <= Len(active)
  /\ active[i].phase = "evaluate"
  /\ CanRun(i)
  /\ LET rows == active[i].rows
         r == ForEachOpen(<<Head(rows)>>, db, prices, now, 0, 0)
     IN /\ db' = r.db
        /\ tickLog' = tickLog \o r.log
        /\ active' = AtPhase(i, IF Tail(rows) = <<>> THEN "done" ELSE "evaluate", Tail(rows))
  /\ UNCHANGED <<running, marketVars, response, wsVars, timerDue, history>>

\* the callback returns, line 361
RunReturn(i) ==
  /\ i <= Len(active)
  /\ active[i].phase = "done"
  /\ CanRun(i)
  /\ active' = SubSeq(active, 1, i - 1) \o SubSeq(active, i + 1, Len(active))
  /\ UNCHANGED <<running, db, marketVars, response, tickLog, wsVars, timerDue, history>>

\* a route handler runs when the call stack is free
LoopOpen ==
  /\ StackFree
  /\ \E asset \in Assets :
       \E o \in Orders(asset) :
         OpenPosition(1, asset, 2, o[1], DefaultPrice(asset), o[2], o[3])

NextLoop ==
  \/ TimerExpires
  \/ BeginCallback
  \/ \E i \in 1..MaxTicks : RunGenerate(i)
  \/ \E i \in 1..MaxTicks : RunBroadcast(i)
  \/ \E i \in 1..MaxTicks : RunSelect(i)
  \/ \E i \in 1..MaxTicks : RunEvaluate(i)
  \/ \E i \in 1..MaxTicks : RunReturn(i)
  \/ LoopOpen

SpecLoop == InitLoop /\ [][NextLoop]_vars

----------------------------------------------------------------------------
(* Reference definitions used by the properties *)

Positions == db.positions
Balance(u) == db.users[u].balance

IsOpenRow(pos) ==
  /\ pos.status = "open"
  /\ pos.close_price = NULL
  /\ pos.closed_at = NULL
  /\ pos.pnl = 0

IsClosedRow(pos) ==
  /\ pos.status = "closed"
  /\ pos.close_price # NULL
  /\ pos.closed_at # NULL

\* the trigger rule of the evaluator's contract: "tp", "sl" or "none"
RefTrigger(pos, current) ==
  LET tpSet == pos.take_profit # NULL
      slSet == pos.stop_loss # NULL
  IN IF pos.type = "BUY"
       THEN CASE tpSet /\ current >= Val(pos.take_profit) -> "tp"
              [] ~(tpSet /\ current >= Val(pos.take_profit))
                   /\ slSet /\ current <= Val(pos.stop_loss) -> "sl"
              [] OTHER -> "none"
       ELSE CASE tpSet /\ current <= Val(pos.take_profit) -> "tp"
              [] ~(tpSet /\ current <= Val(pos.take_profit))
                   /\ slSet /\ current >= Val(pos.stop_loss) -> "sl"
              [] OTHER -> "none"

\* realized profit/loss of the contract
RefPnl(type, entry, size, closePrice) ==
  IF type = "BUY" THEN (closePrice - entry) * size ELSE (entry - closePrice) * size

\* sum of the pnl the latest tick settled for user u
RECURSIVE SettledPnl(_, _)
SettledPnl(log, u) ==
  IF log = <<>> THEN 0
  ELSE (IF Head(log).outcome = "settled" /\ Head(log).user_id = u THEN Head(log).pnl ELSE 0)
       + SettledPnl(Tail(log), u)

FaultEntries == {k \in 1..Len(tickLog) : tickLog[k].outcome = "fault"}

\* the positions of user u that the step closes
ClosedInStep(u) ==
  {i \in 1..Len(db.positions) :
     /\ db.positions[i].user_id = u
     /\ db.positions[i].status = "open"
     /\ db'.positions[i].status = "closed"}

RECURSIVE SumPnlOf(_, _)
SumPnlOf(rows, ids) ==
  IF ids = {} THEN 0
  ELSE LET i == CHOOSE j \in ids : TRUE
       IN rows[i].pnl + SumPnlOf(rows, ids \ {i})

\* a position without take-profit and without stop-loss
NoThresholds(pos) == pos.take_profit = NULL /\ pos.stop_loss = NULL

\* the terms of the balance equation of user u
RECURSIVE ClosedPnl(_, _)
ClosedPnl(rows, u) ==
  IF rows = <<>> THEN 0
  ELSE (IF Head(rows).user_id = u /\ Head(rows).status = "closed" THEN Head(rows).pnl ELSE 0)
       + ClosedPnl(Tail(rows), u)

RECURSIVE ApprovedDeposits(_, _)
ApprovedDeposits(txs, u) ==
  IF txs = <<>> THEN 0
  ELSE (IF Head(txs).user_id = u /\ Head(txs).type = "deposit"
           /\ Head(txs).status = "approved" THEN Head(txs).amount ELSE 0)
       + ApprovedDeposits(Tail(txs), u)

RECURSIVE AcceptedWithdrawals(_, _)
AcceptedWithdrawals(txs, u) ==
  IF txs = <<>> THEN 0
  ELSE (IF Head(txs).user_id = u /\ Head(txs).type = "withdrawal" THEN Head(txs).amount ELSE 0)
       + AcceptedWithdrawals(Tail(txs), u)

----------------------------------------------------------------------------
(* C1: settlement is all-or-nothing.  A fault anywhere inside the settlement   *)
(* unit leaves the position row as it was (open, no close price, no pnl, no    *)
(* closed-at) and the owner's balance without that position's pnl, in the tick *)
(* loop and in the manual close.                                               *)
C1_SettlementAllOrNothing ==
  [][ /\ (response'.op = "close" /\ response'.code = 500) => db' = db
      /\ \A k \in 1..Len(tickLog') :
           tickLog'[k].outcome = "fault" =>
             LET e == tickLog'[k]
             IN /\ db'.positions[e.id] = db.positions[e.id]
                /\ IsOpenRow(db'.positions[e.id])
                /\ db'.users[e.user_id].balance
                     = db.users[e.user_id].balance + SettledPnl(tickLog', e.user_id)
    ]_vars

\* a tick settled one position of a user and then a fault struck the next
\* settlement of the same user between its two statements
C1_Witness ==
  \E k \in FaultEntries :
    /\ k > 1
    /\ tickLog[k].fault = 2
    /\ tickLog[k - 1].outcome = "settled"
    /\ tickLog[k - 1].user_id = tickLog[k].user_id
    /\ tickLog[k - 1].pnl # 0

----------------------------------------------------------------------------
(* C2: a position is closed at most once.  A row changes only in the step that *)
(* closes it, where status, close price, pnl and closed-at are set together    *)
(* and nothing else changes; a closed row never changes again; and in a step   *)
(* that touches no transaction, each balance moves by exactly the pnl of the   *)
(* owner's positions closed in that step.                                      *)
C2_ClosedAtMostOnce ==
  [][ /\ Len(db'.positions) >= Len(db.positions)
      /\ \A i \in 1..Len(db.positions) :
           /\ db.positions[i].status = "closed" => db'.positions[i] = db.positions[i]
           /\ db'.positions[i] # db.positions[i] =>
                /\ IsOpenRow(db.positions[i])
                /\ IsClosedRow(db'.positions[i])
                /\ db'.positions[i] =
                     [db.positions[i] EXCEPT !.status = "closed",
                                             !.close_price = db'.positions[i].close_price,
                                             !.pnl = db'.positions[i].pnl,
                                             !.closed_at = db'.positions[i].closed_at]
      /\ db'.transactions = db.transactions =>
           \A u \in Users :
             db'.users[u].balance
               = db.users[u].balance + SumPnlOf(db'.positions, ClosedInStep(u))
    ]_vars

\* a position closed by an earlier tick, and a later close request turned down
C2_Witness ==
  /\ response.op = "close"
  /\ response.code = 400
  /\ \E i \in 1..Len(Positions) :
       /\ Positions[i].status = "closed"
       /\ Positions[i].pnl # 0
       /\ Val(Positions[i].closed_at) > StartTime

----------------------------------------------------------------------------
(* C3: a fault while settling one position does not keep the other positions   *)
(* from being settled in the same tick: after a tick in which a settlement     *)
(* faulted, no other open position has its threshold crossed by the tick's     *)
(* price.                                                                      *)
C3_FaultIsolated ==
  \A k \in FaultEntries :
    \A i \in 1..Len(Positions) :
      (i # tickLog[k].id /\ Positions[i].status = "open")
        => RefTrigger(Positions[i], Val(prices[Positions[i].asset])) = "none"

----------------------------------------------------------------------------
(* C4: a settlement that fails in a tick is retried: the position is still     *)
(* open and the tick loop is still running, so that the next tick evaluates    *)
(* the position again.                                                         *)
C4_FailedSettlementRetried ==
  \A k \in FaultEntries :
    /\ Positions[tickLog[k].id].status = "open"
    /\ running

----------------------------------------------------------------------------
(* C5: an open request whose required margin, size * entryPrice / 100, exceeds *)
(* the owner's balance is rejected and leaves the database unchanged; any      *)
(* other open request is accepted, inserts one row and returns its id.         *)
C5_MarginCheck ==
  [][ \A u \in Users, asset \in Assets, size \in Sizes :
        \A o \in Orders(asset) :
          OpenPosition(u, asset, size, o[1], DefaultPrice(asset), o[2], o[3]) =>
            IF size * DefaultPrice(asset) > Balance(u) * 100
              THEN /\ response'.code = 400
                   /\ db' = db
              ELSE /\ response'.code = 200
                   /\ response'.id = Len(db.positions) + 1
                   /\ Len(db'.positions) = Len(db.positions) + 1
                   /\ db'.positions[response'.id].id = response'.id
                   /\ db'.positions[response'.id].user_id = u
                   /\ db'.users = db.users
    ]_vars

\* an open request was rejected
C5_Witness ==
  /\ response.op = "open"
  /\ response.code = 400
  /\ \E u \in Users : Balance(u) < InitialBalance

----------------------------------------------------------------------------
(* C6: for every position the tick visits, the decision taken equals the       *)
(* reference rule applied to the position and the tick's price of its asset    *)
(* (take-profit first, then stop-loss, comparisons inverted for a short), and  *)
(* the position is closed exactly when the rule triggers.                      *)
C6_TriggerMatchesReference ==
  \A k \in 1..Len(tickLog) :
    LET e == tickLog[k]
        pos == Positions[e.id]
        ref == RefTrigger(pos, Val(prices[pos.asset]))
    IN /\ e.trigger = ref
       /\ e.shouldClose <=> (ref # "none")
       /\ (e.outcome = "left open") <=> (ref = "none")
       /\ (ref = "none") => pos.status = "open"
       /\ (e.outcome = "settled") => pos.status = "closed"

\* a tick visited a long position for which both conditions held, and the
\* take-profit won
C6_Witness ==
  \E k \in 1..Len(tickLog) :
    LET pos == Positions[tickLog[k].id]
        current == Val(prices[pos.asset])
    IN /\ pos.type = "BUY"
       /\ pos.take_profit # NULL /\ current >= Val(pos.take_profit)
       /\ pos.stop_loss # NULL /\ current <= Val(pos.stop_loss)
       /\ tickLog[k].trigger = "tp"
       /\ tickLog[k].outcome = "settled"

----------------------------------------------------------------------------
(* C7: a position the tick closes is recorded with the threshold that was      *)
(* crossed as its close price, not the tick's market price, and with the pnl   *)
(* computed from that threshold.                                               *)
C7_ClosedAtThreshold ==
  \A k \in 1..Len(tickLog) :
    tickLog[k].outcome = "settled" =>
      LET pos == Positions[tickLog[k].id]
          ref == RefTrigger(pos, Val(prices[pos.asset]))
          threshold == IF ref = "tp" THEN pos.take_profit ELSE pos.stop_loss
      IN /\ ref # "none"
         /\ pos.status = "closed"
         /\ pos.close_price = threshold
         /\ pos.pnl = RefPnl(pos.type, pos.entry_price, pos.size, Val(threshold))

\* a tick closed a position whose threshold the market price had passed
C7_Witness ==
  \E k \in 1..Len(tickLog) :
    LET pos == Positions[tickLog[k].id]
    IN /\ tickLog[k].outcome = "settled"
       /\ Val(pos.close_price) # Val(prices[pos.asset])
       /\ pos.pnl # 0

----------------------------------------------------------------------------
(* C8: the tick never closes a position that has neither take-profit nor       *)
(* stop-loss, whatever the price.                                              *)
C8_NoImplicitLiquidation ==
  \A k \in 1..Len(tickLog) :
    LET pos == Positions[tickLog[k].id]
    IN NoThresholds(pos) =>
         /\ ~tickLog[k].shouldClose
         /\ tickLog[k].outcome = "left open"
         /\ IsOpenRow(pos)

\* a second tick left open a short position without thresholds that is losing
C8_Witness ==
  /\ ticks >= 2
  /\ \E k \in 1..Len(tickLog) :
       LET pos == Positions[tickLog[k].id]
       IN /\ NoThresholds(pos)
          /\ pos.type = "SELL"
          /\ Val(prices[pos.asset]) > pos.entry_price
          /\ pos.status = "open"

----------------------------------------------------------------------------
(* C9: both closing paths compute the pnl with the same function: every closed *)
(* position, closed by a tick or by a request, holds                            *)
(* (closePrice - entryPrice) * size for a long and                              *)
(* (entryPrice - closePrice) * size for a short, and the two code paths give    *)
(* the same value on it.                                                        *)
C9_SamePnlFormula ==
  \A i \in 1..Len(Positions) :
    Positions[i].status = "closed" =>
      LET pos == Positions[i]
          cp == Val(pos.close_price)
      IN /\ pos.pnl = RefPnl(pos.type, pos.entry_price, pos.size, cp)
         /\ ManualPnl(pos, cp) = pos.pnl
         /\ AutoPnl(pos, cp) = pos.pnl

\* a short position closed by a request at a price other than its entry, and
\* another position closed by the latest tick
C9_Witness ==
  \E i \in 1..Len(Positions), k \in 1..Len(tickLog) :
    /\ tickLog[k].id # i
    /\ tickLog[k].outcome = "settled"
    /\ tickLog[k].pnl # 0
    /\ Positions[i].status = "closed"
    /\ Positions[i].type = "SELL"
    /\ NoThresholds(Positions[i])
    /\ Positions[i].pnl # 0

----------------------------------------------------------------------------
(* C10: no balance update is lost or duplicated: each balance equals the       *)
(* initial balance plus the pnl of the owner's closed positions plus the       *)
(* owner's approved deposits minus the owner's accepted withdrawal requests.   *)
C10_BalanceConservation ==
  \A u \in Users :
    Balance(u) = InitialBalance + ClosedPnl(Positions, u)
                   + ApprovedDeposits(db.transactions, u)
                   - AcceptedWithdrawals(db.transactions, u)

\* an account with a closed position and an approved deposit
C10_Witness ==
  \E u \in Users :
    /\ ClosedPnl(Positions, u) # 0
    /\ ApprovedDeposits(db.transactions, u) > 0

----------------------------------------------------------------------------
(* C12: a close request for a position that does not exist, belongs to        *)
(* another user or is already closed is answered 400 and changes no position  *)
(* and no balance; any other close request, when storage does not fail,       *)
(* closes the position at the price the caller sent, credits the profit or    *)
(* loss at that price to the owner and returns it.                            *)
C12_CloseRejectedOrSettled ==
  [][ \A u \in Users, id \in 1..MaxRows, fault \in FaultPoints :
        ClosePosition(u, id, MarketPriceFor(id), fault) =>
          IF \/ id > Len(Positions)
             \/ Positions[id].user_id # u
             \/ Positions[id].status = "closed"
            THEN /\ response'.code = 400
                 /\ db' = db
            ELSE fault = 0 =>
                   LET pos == Positions[id]
                       pnl == RefPnl(pos.type, pos.entry_price, pos.size, MarketPriceFor(id))
                   IN /\ response'.code = 200
                      /\ response'.pnl = pnl
                      /\ IsClosedRow(db'.positions[id])
                      /\ db'.positions[id].close_price = Some(MarketPriceFor(id))
                      /\ db'.positions[id].pnl = pnl
                      /\ db'.users[u].balance = Balance(u) + pnl
                      /\ \A j \in 1..Len(Positions) : j # id => db'.positions[j] = Positions[j]
                      /\ \A v \in Users : v # u => db'.users[v] = db.users[v]
    ]_vars

\* a close request was rejected although every position id it can name exists
\* and is open: the position it named belongs to the other user
C12_Witness ==
  /\ response.op = "close"
  /\ response.code = 400
  /\ Len(Positions) = MaxRows
  /\ \A i \in 1..Len(Positions) : IsOpenRow(Positions[i])
  /\ \A i, j \in 1..Len(Positions) : Positions[i].user_id = Positions[j].user_id

----------------------------------------------------------------------------
(* The closed-position history, lines 167-170, on an account that has traded *)
(* for a while                                                               *)

\* SELECT * FROM positions WHERE user_id = ? AND status = 'closed': rowid order
RECURSIVE SelectClosedOf(_, _, _)
SelectClosedOf(positions, uid, i) ==
  IF i > Len(positions) THEN <<>>
  ELSE IF positions[i].status = "closed" /\ positions[i].user_id = uid
    THEN <<positions[i]>> \o SelectClosedOf(positions, uid, i + 1)
    ELSE SelectClosedOf(positions, uid, i + 1)

\* one row put into a list ordered by closed_at, latest first.  closed_at is the
\* text CURRENT_TIMESTAMP wrote, 'YYYY-MM-DD HH:MM:SS': fixed width, so that its
\* text order is the order of the seconds it names.  SQL leaves the order of
\* rows with equal closed_at open: tiesFirst puts the row before its equals.
RECURSIVE InsertByClosedAt(_, _, _)
InsertByClosedAt(sorted, row, tiesFirst) ==
  IF sorted = <<>> THEN <<row>>
  ELSE IF \/ Val(row.closed_at) > Val(Head(sorted).closed_at)
          \/ tiesFirst /\ Val(row.closed_at) = Val(Head(sorted).closed_at)
    THEN <<row>> \o sorted
    ELSE <<Head(sorted)>> \o InsertByClosedAt(Tail(sorted), row, tiesFirst)

\* ORDER BY closed_at DESC
RECURSIVE OrderByClosedAtDesc(_, _)
OrderByClosedAtDesc(rows, tiesFirst) ==
  IF rows = <<>> THEN <<>>
  ELSE InsertByClosedAt(OrderByClosedAtDesc(Tail(rows), tiesFirst), Head(rows), tiesFirst)

\* SelectHistory with ORDER BY closed_at ASC
SelectHistoryOldestFirst(positions, uid, tiesFirst) ==
  LET desc == OrderByClosedAtDesc(SelectClosedOf(positions, uid, 1), tiesFirst)
      asc == [k \in 1..Len(desc) |-> desc[Len(desc) + 1 - k]]
  IN SubSeq(asc, 1, Min(Len(asc), HistoryLimit))

\* SelectHistory whose rows carry a pnl computed again at the entry price
SelectHistoryRecomputed(positions, uid, tiesFirst) ==
  LET ordered == OrderByClosedAtDesc(SelectClosedOf(positions, uid, 1), tiesFirst)
      top == SubSeq(ordered, 1, Min(Len(ordered), HistoryLimit))
  IN [k \in 1..Len(top) |-> [top[k] EXCEPT !.pnl = 0]]

\* SELECT * FROM positions WHERE user_id = ? AND status = 'closed'
\*   ORDER BY closed_at DESC LIMIT 50
SelectHistory(positions, uid, tiesFirst) ==
  LET ordered == OrderByClosedAtDesc(SelectClosedOf(positions, uid, 1), tiesFirst)
  IN SubSeq(ordered, 1, Min(Len(ordered), HistoryLimit))

\* GET /api/positions/history, lines 167-170
GetHistory(u, tiesFirst) ==
  /\ running
  /\ history' = SelectHistory(db.positions, u, tiesFirst)
  /\ response' = Reply("history", 200)
  /\ tickLog' = <<>>
  /\ UNCHANGED <<running, db, marketVars, wsVars, loopVars>>

\* the positions table of a server in use: HistoryLimit closed positions of
\* user 1, closed at the entry price over the 25 seconds before StartTime - 75
\* in an order unrelated to their ids, then two open positions of user 1 (a
\* long with a bracket, a short without thresholds), a closed and an open
\* position of user 2
LedgerRow(i) ==
  [id |-> i,
   user_id |-> IF i <= HistoryLimit + 2 THEN 1 ELSE 2,
   asset |-> IF i = HistoryLimit + 2 THEN "USD/JPY" ELSE "GOLD",
   size |-> 2,
   type |-> IF i % 2 = 1 THEN "BUY" ELSE "SELL",
   entry_price |-> DefaultPrice(IF i = HistoryLimit + 2 THEN "USD/JPY" ELSE "GOLD"),
   take_profit |-> IF i = HistoryLimit + 1 THEN Some(DefaultPrice("GOLD") + 2)
                   ELSE IF i = HistoryLimit + 4 THEN Some(DefaultPrice("GOLD") - 2)
                   ELSE NULL,
   stop_loss |-> IF i = HistoryLimit + 1 THEN Some(DefaultPrice("GOLD") - 2)
                 ELSE IF i = HistoryLimit + 4 THEN Some(DefaultPrice("GOLD") + 2)
                 ELSE NULL,
   close_price |-> IF i <= HistoryLimit \/ i = HistoryLimit + 3
                   THEN Some(DefaultPrice("GOLD")) ELSE NULL,
   status |-> IF i <= HistoryLimit \/ i = HistoryLimit + 3 THEN "closed" ELSE "open",
   pnl |-> 0,
   closed_at |-> IF i <= HistoryLimit \/ i = HistoryLimit + 3
                 THEN Some(StartTime - 100 + ((7 * i) % 25)) ELSE NULL]

Ledger == [i \in 1..(HistoryLimit + 4) |-> LedgerRow(i)]

InitHistory ==
  /\ running = TRUE
  /\ db = [users |-> [u \in Users |-> [balance |-> InitialBalance]],
           positions |-> Ledger,
           transactions |-> <<>>]
  /\ prices = [a \in Assets |-> Some(DefaultPrice(a))]
  /\ candleData = [a \in Assets |-> [tf \in Timeframes |-> <<>>]]
  /\ now = StartTime
  /\ ticks = 0
  /\ response = NoResponse
  /\ tickLog = <<>>
  /\ clients = [o \in Observers |-> "absent"]
  /\ sent = [o \in Observers |-> <<>>]
  /\ timerDue = FALSE
  /\ active = <<>>
  /\ lost = {}
  /\ history = <<>>

HistoryTick ==
  /\ ticks < MaxTicks
  /\ \E change \in ChangeInputs : TickWith(change, now + TickPeriod, 0, 0)

HistoryClose ==
  \E u \in Users, id \in (HistoryLimit + 1)..(HistoryLimit + 4) :
    ClosePosition(u, id, MarketPriceFor(id), 0)

NextHistory ==
  \/ HistoryTick
  \/ HistoryClose
  \/ \E u \in Users, tiesFirst \in BOOLEAN : GetHistory(u, tiesFirst)

SpecHistory == InitHistory /\ [][NextHistory]_vars

----------------------------------------------------------------------------
(* Candle series: helpers of the claims below *)

LastOf(candles) == candles[Len(candles)]
SeriesOf(a, tf) == candleData[a][tf]
\* the step is a run of the interval callback
IsTickStep == ticks' = ticks + 1
\* the open time of the oldest candle a server up since the longest uptime holds
OldestHistoryTime(tf) ==
  PeriodStart(StartTime, TfSeconds(tf)) - (MaxCandles - 1) * TfSeconds(tf)

----------------------------------------------------------------------------
(* C15: in every candle of every series the low is at most the open and the   *)
(* close, and the high is at least the open and the close.                     *)
C15_CandleShape ==
  \A a \in Assets, tf \in Timeframes :
    \A i \in 1..Len(SeriesOf(a, tf)) :
      LET c == SeriesOf(a, tf)[i]
      IN /\ c.low <= c.open /\ c.open <= c.high
         /\ c.low <= c.close /\ c.close <= c.high

\* a running candle that ticks have updated: its high was raised above the
\* prices it had seen before, and it closed between its open and that high
C15_Witness ==
  /\ ticks > 0
  /\ \E a \in Assets, tf \in Timeframes :
       /\ SeriesOf(a, tf) # <<>>
       /\ LET c == LastOf(SeriesOf(a, tf))
          IN /\ c.low < c.open /\ c.open < c.close /\ c.close < c.high
             /\ c.close = Val(prices[a])

----------------------------------------------------------------------------
(* C16: within every series the candles' open times are strictly increasing   *)
(* and each is a multiple of the timeframe's duration, whatever the clock     *)
(* readings were (stalls and backward steps included).                        *)
C16_TimesAlignedIncreasing ==
  \A a \in Assets, tf \in Timeframes :
    \A i \in 1..Len(SeriesOf(a, tf)) :
      /\ SeriesOf(a, tf)[i].time % TfSeconds(tf) = 0
      /\ i > 1 => SeriesOf(a, tf)[i - 1].time < SeriesOf(a, tf)[i].time

\* the clock was read in a period before the one of the last candle, in a
\* series that ticks have extended
C16_Witness ==
  /\ ticks > 0
  /\ \E a \in Assets, tf \in Timeframes :
       /\ Len(SeriesOf(a, tf)) >= 2
       /\ LastOf(SeriesOf(a, tf)).time > PeriodStart(StartTime, TfSeconds(tf))
       /\ PeriodStart(now, TfSeconds(tf)) < LastOf(SeriesOf(a, tf)).time

----------------------------------------------------------------------------
(* C17: no series ever holds more than 200 candles, and a tick that adds a    *)
(* candle to a series of 200 removes the candle with the smallest open time   *)
(* and keeps all the others.                                                  *)
C17_BoundedEvictOldest ==
  /\ [](\A a \in Assets, tf \in Timeframes : Len(SeriesOf(a, tf)) <= MaxCandles)
  /\ [][ \A a \in Assets, tf \in Timeframes :
          LET old == candleData[a][tf]
              new == candleData'[a][tf]
          IN (Len(old) = MaxCandles /\ LastOf(new).time # LastOf(old).time) =>
               /\ new = Append(Tail(old), LastOf(new))
               /\ \A i \in 2..Len(old) : old[1].time < old[i].time
      ]_vars

\* a series of 200 candles whose oldest candle is younger than the oldest one
\* of the series the server started with: a tick has evicted
C17_Witness ==
  /\ ticks > 0
  /\ \E a \in Assets, tf \in Timeframes :
       /\ Len(SeriesOf(a, tf)) = MaxCandles
       /\ SeriesOf(a, tf)[1].time > OldestHistoryTime(tf)

----------------------------------------------------------------------------
(* C18: a step leaves a series as it is, or changes only its last candle and  *)
(* neither that candle's open time nor its open, or appends one candle to it  *)
(* (dropping the first when full); a candle that is not the last one never    *)
(* changes.                                                                   *)
C18_AppendOnly ==
  [][ \A a \in Assets, tf \in Timeframes :
        LET old == candleData[a][tf]
            new == candleData'[a][tf]
            n == Len(old)
        IN \/ new = old
           \/ /\ n > 0
              /\ Len(new) = n
              /\ \A i \in 1..(n - 1) : new[i] = old[i]
              /\ new[n].time = old[n].time
              /\ new[n].open = old[n].open
           \/ /\ Len(new) = n + 1
              /\ \A i \in 1..n : new[i] = old[i]
           \/ /\ n = MaxCandles
              /\ Len(new) = n
              /\ \A i \in 1..(n - 1) : new[i] = old[i + 1]
              /\ new[n].time > old[n].time
    ]_vars

\* a candle that a tick appended and a later tick updated in place, in a series
\* with older candles before it
C18_Witness ==
  /\ ticks > 0
  /\ \E a \in Assets, tf \in Timeframes :
       /\ Len(SeriesOf(a, tf)) >= 2
       /\ LET c == LastOf(SeriesOf(a, tf))
          IN /\ c.time > PeriodStart(StartTime, TfSeconds(tf))
             /\ c.high > c.low
             /\ c.close = Val(prices[a])

----------------------------------------------------------------------------
(* C19: every tick changes every series as the reference step does: with      *)
(* periodStart = floor(now / tfSeconds) * tfSeconds, an empty series or one    *)
(* whose last candle is older than periodStart gets a candle with open = high *)
(* = low = close = price appended; otherwise the last candle gets high =      *)
(* max(high, price), low = min(low, price), close = price, its open unchanged.*)
C19_MatchesReference ==
  [][ IsTickStep =>
        \A a \in Assets, tf \in Timeframes :
          LET old == candleData[a][tf]
              new == candleData'[a][tf]
              price == Val(prices'[a])
              periodStart == (now' \div TfSeconds(tf)) * TfSeconds(tf)
          IN IF old = <<>> \/ LastOf(old).time < periodStart
               THEN /\ new # <<>>
                    /\ LastOf(new) = [time |-> periodStart, open |-> price,
                                      high |-> price, low |-> price, close |-> price]
                    /\ \/ new = Append(old, LastOf(new))
                       \/ Len(old) = MaxCandles /\ new = Append(Tail(old), LastOf(new))
               ELSE new = [old EXCEPT ![Len(old)] =
                             [time |-> @.time,
                              open |-> @.open,
                              high |-> IF @.high > price THEN @.high ELSE price,
                              low |-> IF @.low < price THEN @.low ELSE price,
                              close |-> price]]
    ]_vars

\* the latest tick crossed a 1m boundary inside a running 5m period: it appended
\* to the 1m series and updated the last 5m candle in place
C19_Witness ==
  /\ ticks > 0
  /\ \E a \in Assets :
       /\ Len(SeriesOf(a, "1m")) >= 2
       /\ LastOf(SeriesOf(a, "1m")).time = PeriodStart(now, TfSeconds("1m"))
       /\ LastOf(SeriesOf(a, "1m")).time > PeriodStart(StartTime, TfSeconds("1m"))
       /\ LastOf(SeriesOf(a, "1m")).high = LastOf(SeriesOf(a, "1m")).low
       /\ LastOf(SeriesOf(a, "5m")).time = PeriodStart(StartTime, TfSeconds("5m"))
       /\ LastOf(SeriesOf(a, "5m")).close = Val(prices[a])
       /\ LastOf(SeriesOf(a, "5m")).close # LastOf(SeriesOf(a, "5m")).open

----------------------------------------------------------------------------
(* C20: in every tick, every observer whose socket is open when the tick      *)
(* broadcasts receives exactly one message; it is tagged market_update and    *)
(* carries the prices of all instruments and the candle series of all         *)
(* instruments and timeframes as that tick left them.                         *)
C20_BroadcastToEveryObserver ==
  [][ IsTickStep =>
        \A o \in Observers :
          clients[o] = "OPEN" =>
            /\ Len(sent'[o]) = 1
            /\ sent'[o][1].type = "market_update"
            /\ sent'[o][1].prices = prices'
            /\ DOMAIN sent'[o][1].prices = Assets
            /\ sent'[o][1].candleData = candleData'
            /\ \A a \in Assets : DOMAIN sent'[o][1].candleData[a] = Timeframes
    ]_vars

\* the latest tick sent its update to two open observers
C20_Witness ==
  /\ ticks > 1
  /\ \A o \in Observers :
       /\ clients[o] = "OPEN"
       /\ Len(sent[o]) = 1
       /\ sent[o][1].prices = prices
       /\ sent[o][1].candleData = candleData

----------------------------------------------------------------------------
(* C13: a tick that finds a stored price that is not a finite positive number *)
(* (a non-number, NaN, zero or a negative number) leaves the instrument at    *)
(* its default price, writes no such value into a candle and broadcasts none. *)
C13_CorruptedPriceReset ==
  [][ IsTickStep =>
        \A a \in Assets :
          (NotANumber(prices[a]) \/ Val(prices[a]) <= 0) =>
            /\ prices'[a] = Some(DefaultPrice(a))
            /\ \A tf \in Timeframes :
                 \A i \in 1..Len(candleData'[a][tf]) : candleData'[a][tf][i].low > 0
            /\ \A o \in Observers :
                 \A k \in 1..Len(sent'[o]) :
                   /\ sent'[o][k].prices[a] # NULL
                   /\ Val(sent'[o][k].prices[a]) > 0
    ]_vars

----------------------------------------------------------------------------
(* C14: after every tick every series of every instrument has been updated    *)
(* with that tick's price: it is not empty and its last candle closes at the  *)
(* instrument's current price, also after a tick that reset a corrupted one.  *)
C14_EverySeriesUpdated ==
  ticks > 0 =>
    \A a \in Assets, tf \in Timeframes :
      /\ SeriesOf(a, tf) # <<>>
      /\ LastOf(SeriesOf(a, tf)).close = Val(prices[a])

----------------------------------------------------------------------------
(* C11: ticks never overlap: at most one run of the interval callback is      *)
(* begun and not yet returned, and no position is in the evaluate/settle      *)
(* phase of two runs at once; a run that is due while another is at work      *)
(* waits until that one has returned.                                         *)
C11_TicksNeverOverlap ==
  /\ Len(active) <= 1
  /\ \A i, j \in 1..Len(active) :
       (/\ i # j
        /\ active[i].phase = "evaluate"
        /\ active[j].phase = "evaluate") =>
         \A k \in 1..Len(active[i].rows), l \in 1..Len(active[j].rows) :
           active[i].rows[k].id # active[j].rows[l].id

\* the timer has expired again while the running callback still has positions
\* to evaluate and settle
C11_Witness ==
  /\ timerDue
  /\ Len(active) = 1
  /\ active[1].phase = "evaluate"
  /\ Len(active[1].rows) = 2
  /\ ticks = 1

----------------------------------------------------------------------------
----------------------------------------------------------------------------
(* C22: a withdrawal request for more than the balance is answered 400 and    *)
(* changes nothing; any other withdrawal request either appends one pending   *)
(* withdrawal transaction and lowers the requester's balance by the amount,   *)
(* to a value that is not negative, or (storage fault) changes nothing.       *)
C22_WithdrawalChecked ==
  [][ \A u \in Users, amount \in WithdrawAmounts, fault \in FaultPoints :
        Withdraw(u, amount, fault) =>
          IF amount > Balance(u)
            THEN /\ response'.code = 400
                 /\ db' = db
            ELSE IF fault = 0
              THEN /\ response'.code = 200
                   /\ Len(db'.transactions) = Len(db.transactions) + 1
                   /\ \A k \in 1..Len(db.transactions) :
                        db'.transactions[k] = db.transactions[k]
                   /\ LET tx == db'.transactions[Len(db'.transactions)]
                      IN /\ tx.user_id = u
                         /\ tx.type = "withdrawal"
                         /\ tx.amount = amount
                         /\ tx.status = "pending"
                   /\ db'.users[u].balance = Balance(u) - amount
                   /\ db'.users[u].balance >= 0
                   /\ \A v \in Users : v # u => db'.users[v] = db.users[v]
                   /\ db'.positions = db.positions
              ELSE /\ response'.code = 500
                   /\ db' = db
    ]_vars

\* a withdrawal request was rejected after an earlier one had been accepted
C22_Witness ==
  /\ response.op = "withdraw"
  /\ response.code = 400
  /\ \E k \in 1..Len(db.transactions) :
       /\ db.transactions[k].type = "withdrawal"
       /\ db.transactions[k].status = "pending"
       /\ Balance(db.transactions[k].user_id) = InitialBalance - db.transactions[k].amount

----------------------------------------------------------------------------
(* C23: an open request that is accepted leaves every balance and every       *)
(* transaction as it was, leaves every existing position as it was, and adds  *)
(* exactly one position: the requester's, open, with pnl 0, no close price    *)
(* and no closed-at.                                                          *)
C23_OpenOnlyInserts ==
  [][ \A u \in Users, asset \in Assets, size \in Sizes :
        \A o \in Orders(asset) :
          (/\ OpenPosition(u, asset, size, o[1], DefaultPrice(asset), o[2], o[3])
           /\ response'.code = 200) =>
            /\ db'.users = db.users
            /\ db'.transactions = db.transactions
            /\ Len(db'.positions) = Len(Positions) + 1
            /\ \A i \in 1..Len(Positions) : db'.positions[i] = Positions[i]
            /\ LET row == db'.positions[Len(db'.positions)]
               IN /\ row.user_id = u
                  /\ row.asset = asset
                  /\ row.size = size
                  /\ row.type = o[1]
                  /\ row.entry_price = DefaultPrice(asset)
                  /\ row.status = "open"
                  /\ row.pnl = 0
                  /\ row.close_price = NULL
                  /\ row.closed_at = NULL
    ]_vars

\* an open request was accepted while the account held a closed position whose
\* pnl had moved its balance
C23_Witness ==
  /\ response.op = "open"
  /\ response.code = 200
  /\ Len(Positions) = 2
  /\ Positions[1].status = "closed"
  /\ Positions[1].pnl # 0
  /\ Positions[2].user_id = Positions[1].user_id
  /\ IsOpenRow(Positions[2])

----------------------------------------------------------------------------
(* C26: when a tick has completed without a fault, no position of any owner   *)
(* is still open whose set take-profit or set stop-loss condition holds at    *)
(* the price that tick gave its instrument.                                   *)
C26_NoCrossedPositionLeftOpen ==
  (response = NoResponse /\ ticks > 0 /\ running) =>
    \A i \in 1..Len(Positions) :
      LET pos == Positions[i]
          price == Val(prices[pos.asset])
      IN pos.status = "open" =>
           /\ pos.take_profit # NULL =>
                IF pos.type = "BUY" THEN price < Val(pos.take_profit)
                ELSE price > Val(pos.take_profit)
           /\ pos.stop_loss # NULL =>
                IF pos.type = "BUY" THEN price > Val(pos.stop_loss)
                ELSE price < Val(pos.stop_loss)

\* a tick that completed settled crossings of positions of two owners
C26_Witness ==
  /\ response = NoResponse
  /\ running
  /\ \E k, l \in 1..Len(tickLog) :
       /\ tickLog[k].outcome = "settled"
       /\ tickLog[l].outcome = "settled"
       /\ tickLog[k].user_id # tickLog[l].user_id

----------------------------------------------------------------------------
(* C27: a step that closes positions, by the tick or by a close request,      *)
(* moves the balance of each account by the sum of the pnl of that account's  *)
(* positions closed in the step (nothing for an account that owns none of     *)
(* them) and changes no position other than the ones it closes.               *)
C27_SettlementFrame ==
  [][ LET closedNow == {i \in 1..Len(Positions) :
                          /\ Positions[i].status = "open"
                          /\ db'.positions[i].status = "closed"}
      IN closedNow # {} =>
           /\ \A u \in Users :
                db'.users[u].balance =
                  Balance(u) + SumPnlOf(db'.positions,
                                        {i \in closedNow : Positions[i].user_id = u})
           /\ \A i \in 1..Len(Positions) :
                i \notin closedNow => db'.positions[i] = Positions[i]
           /\ Len(db'.positions) = Len(Positions)
    ]_vars

\* the latest tick settled a position with a profit or a loss, while the other
\* account holds an open position and its initial balance
C27_Witness ==
  \E k \in 1..Len(tickLog), i \in 1..Len(Positions) :
    /\ tickLog[k].outcome = "settled"
    /\ tickLog[k].pnl # 0
    /\ Positions[i].status = "open"
    /\ Positions[i].user_id # tickLog[k].user_id
    /\ Balance(Positions[i].user_id) = InitialBalance
    /\ Balance(tickLog[k].user_id) = InitialBalance + tickLog[k].pnl

----------------------------------------------------------------------------
(* C28: a deposit request appends one pending deposit and changes no balance; *)
(* an administrator's approval of a pending transaction marks it approved     *)
(* and, in the same unit, adds its amount to its requester's balance if it is *)
(* a deposit and changes no balance if it is a withdrawal (or, on a storage   *)
(* fault, changes nothing); any other approval is rejected and changes        *)
(* nothing, so no deposit is credited twice.                                  *)
C28_DepositCreditedOnApproval ==
  [][ /\ \A u \in Users, amount \in DepositAmounts :
           Deposit(u, amount) =>
             /\ db'.users = db.users
             /\ db'.positions = db.positions
             /\ db'.transactions =
                  Append(db.transactions,
                         [id |-> Len(db.transactions) + 1, user_id |-> u,
                          type |-> "deposit", amount |-> amount, status |-> "pending"])
      /\ \A u \in Users, id \in 1..MaxRows, fault \in FaultPoints :
           Approve(u, id, fault) =>
             IF /\ Role(u) = "admin"
                /\ id <= Len(db.transactions)
                /\ db.transactions[id].status = "pending"
               THEN IF fault = 0
                      THEN LET tx == db.transactions[id]
                           IN /\ response'.code = 200
                              /\ db'.transactions =
                                   [db.transactions EXCEPT ![id].status = "approved"]
                              /\ \A v \in Users :
                                   db'.users[v].balance =
                                     Balance(v) + (IF tx.type = "deposit" /\ v = tx.user_id
                                                   THEN tx.amount ELSE 0)
                              /\ db'.positions = db.positions
                      ELSE /\ response'.code = 500
                           /\ db' = db
               ELSE /\ response'.code \in {400, 403}
                    /\ db' = db
    ]_vars

\* an approval was rejected when every transaction was already approved: a
\* deposit, credited once to its requester, and a withdrawal
C28_Witness ==
  /\ response.op = "approve"
  /\ response.code = 400
  /\ Len(db.transactions) = 2
  /\ \A k \in 1..2 : db.transactions[k].status = "approved"
  /\ db.transactions[1].type = "deposit"
  /\ db.transactions[2].type = "withdrawal"
  /\ db.transactions[1].user_id # db.transactions[2].user_id
  /\ Balance(db.transactions[1].user_id) = InitialBalance + db.transactions[1].amount

----------------------------------------------------------------------------
(* C29: every automatic closure at the take-profit price realizes a pnl that  *)
(* is not negative, and every automatic closure at the stop-loss price a pnl  *)
(* that is not positive, for every position the open request accepted.        *)
C29_ThresholdPnlSign ==
  \A k \in 1..Len(tickLog) :
    tickLog[k].outcome = "settled" =>
      /\ tickLog[k].trigger = "tp" => tickLog[k].pnl >= 0
      /\ tickLog[k].trigger = "sl" => tickLog[k].pnl <= 0


----------------------------------------------------------------------------
(* The history query *)

ClosedIdsOf(u) ==
  {i \in 1..Len(Positions) : Positions[i].status = "closed" /\ Positions[i].user_id = u}

HistoryIds(h) == {h[k].id : k \in 1..Len(h)}

(* C24: a history query of user u returns only closed positions of u, each   *)
(* once and as stored, at most HistoryLimit of them, ordered by closure time *)
(* latest first, and no closed position of u left out was closed later than  *)
(* one returned: they are the HistoryLimit most recently closed.             *)
C24_HistoryQuery ==
  [][\A u \in Users, tiesFirst \in BOOLEAN :
       GetHistory(u, tiesFirst) =>
         /\ Len(history') = Min(Cardinality(ClosedIdsOf(u)), HistoryLimit)
         /\ \A k \in 1..Len(history') :
              /\ history'[k].id \in ClosedIdsOf(u)
              /\ history'[k] = Positions[history'[k].id]
         /\ \A k, l \in 1..Len(history') :
              k < l => /\ history'[k].id # history'[l].id
                       /\ Val(history'[k].closed_at) >= Val(history'[l].closed_at)
         /\ \A i \in ClosedIdsOf(u) \ HistoryIds(history') :
              \A k \in 1..Len(history') :
                Val(Positions[i].closed_at) <= Val(history'[k].closed_at)]_vars

C24_Witness ==
  /\ response.op = "history"
  /\ Len(history) = HistoryLimit
  /\ Cardinality(ClosedIdsOf(history[1].user_id)) > HistoryLimit
  /\ Val(history[1].closed_at) >= StartTime
  /\ Val(history[1].closed_at) > Val(history[HistoryLimit].closed_at)

(* C25 as stated: every history query of the owner made after a position was *)
(* closed returns that position, with the close price and the pnl stored at  *)
(* its closure.                                                              *)
C25_EveryClosedPositionReturned ==
  [][\A u \in Users, tiesFirst \in BOOLEAN :
       GetHistory(u, tiesFirst) =>
         \A i \in ClosedIdsOf(u) :
           \E k \in 1..Len(history') :
             /\ history'[k].id = i
             /\ history'[k].close_price = Positions[i].close_price
             /\ history'[k].pnl = Positions[i].pnl]_vars

(* C25, amended: no step changes the row of a closed position, whatever it  *)
(* does to the prices; a history query returns rows exactly as stored, whose *)
(* pnl is the settlement formula at the stored close price, not at the       *)
(* current price; and it returns a closed position of the owner as long as   *)
(* fewer than HistoryLimit of the owner's positions were closed at the same  *)
(* time or later.                                                            *)
C25_HistoryReturnsStoredValues ==
  [][/\ \A i \in 1..Len(Positions) :
          Positions[i].status = "closed" => db'.positions[i] = Positions[i]
     /\ \A u \in Users, tiesFirst \in BOOLEAN :
          GetHistory(u, tiesFirst) =>
            /\ \A k \in 1..Len(history') :
                 /\ history'[k].close_price = Positions[history'[k].id].close_price
                 /\ history'[k].pnl = Positions[history'[k].id].pnl
                 /\ history'[k].pnl = RefPnl(history'[k].type, history'[k].entry_price,
                                            history'[k].size, Val(history'[k].close_price))
            /\ \A i \in ClosedIdsOf(u) :
                 Cardinality({j \in ClosedIdsOf(u) :
                                j # i /\ Val(Positions[j].closed_at) >= Val(Positions[i].closed_at)})
                     < HistoryLimit
                   => i \in HistoryIds(history')]_vars

C25_Witness ==
  /\ response.op = "history"
  /\ \E k \in 1..Len(history) :
       /\ history[k].pnl # 0
       /\ Val(history[k].closed_at) < now
       /\ Val(prices[history[k].asset]) # Val(history[k].close_price)
       /\ history[k] = Positions[history[k].id]


----------------------------------------------------------------------------
(* C30: after every tick every series of every instrument is non-empty and   *)
(* its last candle closes at the instrument's current price, and in every    *)
(* market_update message the last candle of every series closes at the price *)
(* the same message gives for the instrument.                                *)
C30_PricesAndCandlesConsistent ==
  ticks > 0 =>
    \A a \in Assets, tf \in Timeframes :
      /\ candleData[a][tf] # <<>>
      /\ prices[a] = Some(LastOf(candleData[a][tf]).close)
      /\ \A o \in Observers :
           \A k \in 1..Len(sent[o]) :
             /\ sent[o][k].candleData[a][tf] # <<>>
             /\ sent[o][k].prices[a] = Some(LastOf(sent[o][k].candleData[a][tf]).close)

====
